---- MODULE Spec2Model ----
(***************************************************************************)
(* Kenshi Shop: the order / approval / delivery state machine of           *)
(* src/app.py (Flask application, JSON files as backing store) and the     *)
(* claim handler of src/bot_worker.py (Telegram worker, MongoDB).          *)
(***************************************************************************)
EXTENDS Integers, Sequences, FiniteSets, TLC

\* ------------------------------------------------------------------ bounds
MaxProducts == 1   \* product ids (uuid4 values) handed out by add_product
MaxOrders == 1     \* order ids (uuid4 values) handed out by product_page
MaxLedgerOrders == 2   \* the same, in the specification of the order ledger
MaxCatalogProducts == 3    \* product ids, in the specification of the catalog
MaxNameLen == 4    \* length of a product name, in the specification of create_slug

\* Python's None
None == "None"
\* existing_product_id=None of create_slug: no product id equals it
NoProduct == 0

\* ------------------------------------------------------- character helpers
LowerOf == [c \in {"A", "B"} |-> IF c = "A" THEN "a" ELSE "b"]
UpperOf == [c \in {"a", "b"} |-> IF c = "a" THEN "A" ELSE "B"]

\* str.lower() on one character
lower(c) == IF c \in DOMAIN LowerOf THEN LowerOf[c] ELSE c
\* str.upper() on one character
upper(c) == IF c \in DOMAIN UpperOf THEN UpperOf[c] ELSE c

LowerStr(s) == [i \in 1..Len(s) |-> lower(s[i])]
UpperStr(s) == [i \in 1..Len(s) |-> upper(s[i])]

SlugChars == {"a", "b", "c", "d", "o", "p", "r", "t", "u", "0", "1", "-"}
Whitespace == {" "}

\* str.strip(chars): drop leading and trailing characters of the set
RECURSIVE LStrip(_, _)
LStrip(s, chars) ==
    IF s # <<>> /\ Head(s) \in chars THEN LStrip(Tail(s), chars) ELSE s

RECURSIVE RStrip(_, _)
RStrip(s, chars) ==
    IF s # <<>> /\ s[Len(s)] \in chars
    THEN RStrip(SubSeq(s, 1, Len(s) - 1), chars) ELSE s

Strip(s, chars) == RStrip(LStrip(s, chars), chars)

\* re.sub(r'[^a-z0-9-]', '-', s)
SubNonSlug(s) == [i \in 1..Len(s) |-> IF s[i] \in SlugChars THEN s[i] ELSE "-"]

\* runs of '-' left as they are
Uncollapsed(s) == s

\* re.sub(r'-+', '-', s)
RECURSIVE Collapse(_)
Collapse(s) ==
    IF Len(s) < 2 THEN s
    ELSE IF s[1] = "-" /\ s[2] = "-" THEN Collapse(Tail(s))
    ELSE <<s[1]>> \o Collapse(Tail(s))

FallbackSlug == <<"p", "r", "o", "d", "u", "c", "t">>

\* create_slug up to the collision test: the name-derived slug
base_slug(product_name) ==
    LET s1 == Strip(LowerStr(product_name), Whitespace)
        s2 == SubNonSlug(s1)
        s3 == Strip(Collapse(s2), {"-"})
    IN  IF s3 = <<>> THEN FallbackSlug ELSE s3

\* key in d
Has(d, k) == k \in DOMAIN d

\* d[k] = v on a dict
Put(d, k, v) == [x \in DOMAIN d \cup {k} |-> IF x = k THEN v ELSE d[x]]

\* del d[k]
Del(d, k) == [x \in DOMAIN d \ {k} |-> d[x]]

EmptyDict == [x \in {} |-> None]

\* ------------------------------------------------------------------- state
VARIABLES
    products,          \* app.py: product id -> product record
    orders,            \* app.py: order id -> order record
    slug_to_id_map,    \* app.py: slug -> product id
    claim_codes,       \* app.py: claim code -> order id
    products_file,     \* products.json as last written by save_data
    orders_file,       \* orders.json as last written by save_data
    store_writable,    \* open(PRODUCTS_FILE, 'w') / open(ORDERS_FILE, 'w') succeed
    secure_files,      \* names of the files present in SECURE_FILES_FOLDER
    temp_downloads,    \* order id -> entries of <order id>.zip in TEMP_DOWNLOAD_FOLDER
    next_pid,          \* number of product uuids drawn so far + 1
    next_token,        \* number of token uuids drawn so far + 1
    orders_collection, \* bot_worker.py: documents of db.orders (MongoDB)
    pc,                \* racing specification: position of each request thread
    local              \* racing specification: local variables of each request thread

app_mem == <<products, orders, slug_to_id_map, claim_codes>>
app_disk == <<products_file, orders_file, store_writable>>
app_fs == <<secure_files, temp_downloads>>
uuids == <<next_pid, next_token>>
threads == <<pc, local>>
vars == <<products, orders, slug_to_id_map, claim_codes, products_file,
          orders_file, store_writable, secure_files, temp_downloads, next_pid, next_token,
          orders_collection, pc, local>>

\* the request threads of the web server (racing specification)
Threads == {"t1", "t2"}

\* create_slug(product_name, existing_product_id), the uuid fragment being suffix
create_slug(product_name, existing_product_id, suffix) ==
    LET s == base_slug(product_name)
    IN  IF Has(slug_to_id_map, s) /\ slug_to_id_map[s] # existing_product_id
        THEN s \o <<"-">> \o suffix
        ELSE s

\* the reply of a handler: HTTP status and, for a redirect, the view redirected to
Reply(code, to) == [code |-> code, to |-> to]

\* save_data(): both dicts are dumped to their JSON files; an exception of
\* open() or json.dump() is caught and printed, and nothing is raised
save_data(p, o) ==
    /\ UNCHANGED store_writable
    /\ IF store_writable
       THEN products_file' = p /\ orders_file' = o
       ELSE UNCHANGED <<products_file, orders_file>>

\* ----------------------------------------------------------- input domains
ProductIds == 1..MaxProducts
OrderNums == 1..MaxOrders
\* str(uuid.uuid4()) of an order: first group and rest; order uuids whose first groups differ from one another
OrderIds == {[frag |-> <<"a", ToString(n)>>, rest |-> n] : n \in OrderNums}
\* order uuids whose first groups may coincide: the first group has 8 hex
\* digits of the 32 of a uuid
LedgerOrderIds ==
    UNION {{[frag |-> <<"a", ToString(f)>>, rest |-> n] : f \in {1, n}} :
              n \in 1..MaxLedgerOrders}
\* str(uuid.uuid4())[:4] in create_slug
Suffixes == {<<"0", "0">>}
Names == {<<"A">>}
SubmittedStatuses == {"available", "pending", "sold"}
ReceiptNames == {"r1"}

\* f"CLAIM-{order_id.split('-')[0].upper()}"
claim_code_of(order_id) == <<"C", "L", "A", "I", "M", "-">> \o UpperStr(order_id.frag)

\* the script file add_product stores for a product
script_name(product_id) == "script_" \o ToString(product_id)

\* ----------------------------------------------------------------- catalog
\* POST /admin/add
add_product(name, checker_type, has_image, has_script, suffix) ==
    LET product_id == next_pid
        slug == create_slug(name, NoProduct, suffix)
        needs_script == checker_type # "website_link"
        new_product == [id |-> product_id, slug |-> slug, name |-> name,
                        status |-> "available", checker_type |-> checker_type,
                        script_filename |-> IF needs_script
                                            THEN script_name(product_id) ELSE None]
    IN  /\ IF ~has_image \/ (needs_script /\ ~has_script)
           THEN UNCHANGED <<app_mem, app_disk, app_fs, uuids>>
           ELSE \* product_id = str(uuid.uuid4()): a value never drawn before
                /\ products' = Put(products, product_id, new_product)
                /\ slug_to_id_map' = Put(slug_to_id_map, slug, product_id)
                /\ secure_files' = IF needs_script
                                   THEN secure_files \cup {script_name(product_id)}
                                   ELSE secure_files
                /\ next_pid' = next_pid + 1
                \* save__data() is an undefined name: NameError, nothing is saved
                /\ UNCHANGED <<orders, claim_codes, app_disk, temp_downloads, next_token>>
        /\ UNCHANGED <<orders_collection, threads>>

\* what add_product answers: its last call, save__data(), raises NameError
add_product_reply(checker_type, has_image, has_script) ==
    IF ~has_image \/ (checker_type # "website_link" /\ ~has_script)
    THEN Reply(302, "add_product")
    ELSE Reply(500, None)

\* POST /admin/edit/<product_id>
edit_product(product_id, name, status, suffix) ==
    LET product == products[product_id]
    IN  /\ IF ~Has(products, product_id)
           THEN UNCHANGED <<app_mem, app_disk>>
           ELSE LET original_slug == product.slug
                    new_slug == create_slug(name, product_id, suffix)
                    edited == [product EXCEPT !.name = name, !.status = status,
                                              !.slug = new_slug]
                    unmapped == IF original_slug \in DOMAIN slug_to_id_map
                                THEN Del(slug_to_id_map, original_slug)
                                ELSE slug_to_id_map
                IN  /\ products' = Put(products, product_id, edited)
                    /\ slug_to_id_map' = IF new_slug # original_slug
                                         THEN Put(unmapped, new_slug, product.id)
                                         ELSE slug_to_id_map
                    /\ save_data(products', orders)
                    /\ UNCHANGED <<orders, claim_codes>>
        /\ UNCHANGED <<app_fs, uuids, orders_collection, threads>>

\* POST /admin/delete/<product_id>
delete_product(product_id) ==
    LET product == products[product_id]
    IN  /\ IF ~Has(products, product_id)
           THEN UNCHANGED <<app_mem, app_disk, app_fs>>
           ELSE /\ secure_files' = secure_files \ {product.script_filename}
                /\ slug_to_id_map' = IF product.slug \in DOMAIN slug_to_id_map
                                     THEN Del(slug_to_id_map, product.slug)
                                     ELSE slug_to_id_map
                /\ products' = Del(products, product_id)
                /\ save_data(products', orders)
                /\ UNCHANGED <<orders, claim_codes, temp_downloads>>
        /\ UNCHANGED <<uuids, orders_collection, threads>>

\* ------------------------------------------------------------------ orders
\* product_page without the test of the product's status
can_order_any_status(slug) ==
    /\ Has(slug_to_id_map, slug)
    /\ Has(products, slug_to_id_map[slug])

\* product_page: the slug resolves to a product whose status is 'available'
can_order(slug) ==
    /\ Has(slug_to_id_map, slug)
    /\ Has(products, slug_to_id_map[slug])
    /\ products[slug_to_id_map[slug]].status = "available"

\* submit_payment without the test of the order's status
can_submit_any_status(order_id) == Has(orders, order_id)

\* submit_payment: not (not order or order['status'] != 'unpaid')
can_submit(order_id) ==
    Has(orders, order_id) /\ orders[order_id].status = "unpaid"

\* approve_order without the test of the order's status
can_approve_any_status(order_id) == Has(orders, order_id)

\* approve_order: order and order['status'] == 'pending'
can_approve(order_id) ==
    Has(orders, order_id) /\ orders[order_id].status = "pending"

\* approve_order without the write of the product's status
release_product_skipped(product) == product

\* approve_order: product['status'] = 'available'
release_product(product) == [product EXCEPT !.status = "available"]

\* approve_order, except branch: product['status'] = 'pending'
revert_product(product) == [product EXCEPT !.status = "pending"]

\* POST /product/<slug>
product_page(slug, order_id, has_payment_method) ==
    LET product_id == slug_to_id_map[slug]
        product == products[product_id]
        claim_code == claim_code_of(order_id)
        order == [id |-> order_id, product_id |-> product.id, status |-> "unpaid",
                  receipt_filename |-> None, buyer_chat_id |-> None,
                  buyer_username |-> None, is_proof |-> FALSE,
                  claim_code |-> claim_code, download_token |-> None]
    IN  /\ IF ~can_order(slug)
           THEN UNCHANGED <<app_mem, app_disk>>
           ELSE IF ~has_payment_method
           THEN \* request.form['payment_method'] raises BadRequestKeyError
                UNCHANGED <<app_mem, app_disk>>
           ELSE \* order_id = str(uuid.uuid4()): a value never drawn before
                /\ order_id.rest = Cardinality(DOMAIN orders) + 1
                /\ orders' = Put(orders, order_id, order)
                /\ claim_codes' = Put(claim_codes, claim_code, order_id)
                /\ products' = [products EXCEPT ![product_id].status = "pending"]
                /\ save_data(products', orders')
                /\ UNCHANGED slug_to_id_map
        /\ UNCHANGED <<app_fs, uuids, orders_collection, threads>>

\* what product_page answers
product_page_reply(slug, has_payment_method) ==
    IF ~can_order(slug) THEN Reply(404, None)
    ELSE IF ~has_payment_method THEN Reply(400, None)
    ELSE Reply(302, "order_status")

\* POST /submit_payment/<order_id>
submit_payment(order_id, receipt_name) ==
    /\ IF ~can_submit(order_id)
       THEN UNCHANGED <<orders, app_disk>>
       ELSE IF receipt_name = None
       THEN \* no file in the form: nothing is stored
            UNCHANGED <<orders, app_disk>>
       ELSE /\ orders' = [orders EXCEPT ![order_id].receipt_filename = receipt_name,
                                        ![order_id].status = "pending"]
            /\ save_data(products, orders')
    /\ UNCHANGED <<products, slug_to_id_map, claim_codes, app_fs, uuids,
                   orders_collection, threads>>

\* what submit_payment answers
submit_payment_reply(order_id) ==
    IF ~can_submit(order_id) THEN Reply(404, None)
    ELSE Reply(302, "order_status")

\* next((o for o in orders.values() if o.get('download_token') == token), None):
\* the orders holding the token, the first of them in insertion order being taken
holders(token) == {o \in DOMAIN orders : orders[o].download_token = token}
first_holder(token) ==
    CHOOSE o \in holders(token) : \A q \in holders(token) : o.rest <= q.rest

\* download_file serves the order the token resolves to, but for a token
\* that no order holds
token_found(token) == holders(token) # {}

\* download_file: products.get(order['product_id']) is not None
product_found(order) == Has(products, order.product_id)

\* GET /download/<token>   (token is a URL segment: a string, never None)
download_file(token) ==
    LET order_id == first_holder(token)
        order == orders[order_id]
    IN  /\ token # None
        /\ IF ~token_found(token)
           THEN UNCHANGED <<orders, app_disk>>
           ELSE IF ~product_found(order)
           THEN UNCHANGED <<orders, app_disk>>
           ELSE IF order.status = "approved"
           THEN /\ orders' = [orders EXCEPT ![order_id].status = "completed"]
                /\ save_data(products, orders')
           ELSE UNCHANGED <<orders, app_disk>>
        /\ UNCHANGED <<products, slug_to_id_map, claim_codes, app_fs, uuids,
                       orders_collection, threads>>

\* what download_file answers; send_from_directory answers 404 for a
\* missing <order id>.zip
download_file_reply(token) ==
    IF ~token_found(token) THEN Reply(404, None)
    ELSE IF ~product_found(orders[first_holder(token)]) THEN Reply(404, None)
    ELSE IF Has(temp_downloads, first_holder(token)) THEN Reply(200, None)
    ELSE Reply(404, None)

\* a download token that is the same value at every approval
reused_token == "tok" \o ToString(1)

\* an approval that stores no download token
token_not_written == None

\* str(uuid.uuid4()) for a download token: a value never drawn before
uuid4_token == "tok" \o ToString(next_token)

\* the entries approve_order writes into <order id>.zip (bonus text aside)
zip_entries(product) ==
    IF product.checker_type = "website_link" THEN {"instructions.txt"}
    ELSE IF product.script_filename # None
    THEN (IF product.script_filename \in secure_files
          THEN {product.script_filename} ELSE {})
    ELSE {}

\* POST /admin/approve/<order_id>; zip_ok: writing the ZIP file raises nothing
approve_order(order_id, mark_as_proof, zip_ok) ==
    LET order == orders[order_id]
        product_id == order.product_id
        product == products[product_id]
    IN  /\ IF ~can_approve(order_id)
           THEN UNCHANGED <<products, orders, app_disk, temp_downloads, next_token>>
           ELSE IF ~Has(products, product_id)
           THEN UNCHANGED <<products, orders, app_disk, temp_downloads, next_token>>
           ELSE IF ~zip_ok
           THEN /\ orders' = [orders EXCEPT ![order_id].is_proof = mark_as_proof]
                \* 'available' is written, then the except branch writes 'pending'
                /\ products' = Put(products, product_id,
                                    revert_product(release_product(product)))
                /\ UNCHANGED <<app_disk, temp_downloads, next_token>>
           ELSE /\ orders' = [orders EXCEPT ![order_id].is_proof = mark_as_proof,
                                            ![order_id].status = "approved",
                                            ![order_id].download_token = uuid4_token]
                /\ products' = Put(products, product_id, release_product(product))
                /\ temp_downloads' = Put(temp_downloads, order_id, zip_entries(product))
                /\ next_token' = next_token + 1
                /\ save_data(products', orders')
        /\ UNCHANGED <<slug_to_id_map, claim_codes, secure_files, next_pid,
                       orders_collection, threads>>

\* what approve_order answers; send_ok: no bot is configured, or its
\* send_message raises nothing (the sends to a linked buyer are inside
\* try/except, the send for an unlinked buyer is not)
approve_order_reply(order_id, zip_ok, send_ok) ==
    IF ~can_approve(order_id) THEN Reply(302, "admin_dashboard")
    ELSE IF ~Has(products, orders[order_id].product_id) THEN Reply(404, None)
    ELSE IF ~zip_ok THEN Reply(500, None)
    ELSE IF orders[order_id].buyer_chat_id = None /\ ~send_ok THEN Reply(500, None)
    ELSE Reply(302, "admin_dashboard")

\* whom approve_order sends the download link to: the buyer's chat when the
\* order record carries one, the administrator's chat otherwise
AdminChat == "admin"
link_recipient(order_id) ==
    IF orders[order_id].buyer_chat_id # None
    THEN orders[order_id].buyer_chat_id
    ELSE AdminChat

\* the asset storage loses a product's file (os.path.exists(file_path) is false)
asset_lost(name) ==
    /\ name \in secure_files
    /\ secure_files' = secure_files \ {name}
    /\ UNCHANGED <<app_mem, app_disk, temp_downloads, uuids, orders_collection,
                   threads>>

\* ------------------------------------------------ restart and backing store
\* the last value an iteration in insertion order assigns to a key: ids are
\* inserted in the order they were drawn
last_product(ids) == CHOOSE i \in ids : \A j \in ids : j <= i
last_order(ids) == CHOOSE i \in ids : \A j \in ids : j.rest <= i.rest

\* A restart of the process: the globals start empty and load_data() fills
\* them from products.json and orders.json; the slug index is rebuilt from
\* every product, the claim registry from the 'unpaid' and 'pending' orders
load_data ==
    LET slugs == {products_file[p].slug : p \in DOMAIN products_file}
        open_orders == {o \in DOMAIN orders_file :
                           orders_file[o].status \in {"unpaid", "pending"}}
        codes == {orders_file[o].claim_code : o \in open_orders}
    IN  /\ products' = products_file
        /\ slug_to_id_map' =
              [x \in slugs |->
                 last_product({p \in DOMAIN products_file :
                                  products_file[p].slug = x})]
        /\ orders' = orders_file
        /\ claim_codes' =
              [c \in codes |->
                 last_order({o \in open_orders : orders_file[o].claim_code = c})]
        /\ UNCHANGED <<app_disk, app_fs, uuids, orders_collection, threads>>

\* the data folder stops accepting writes (disk full, read-only mount)
store_fails ==
    /\ store_writable
    /\ store_writable' = FALSE
    /\ UNCHANGED <<app_mem, products_file, orders_file, app_fs, uuids,
                   orders_collection, threads>>

\* the data folder accepts writes again
store_recovers ==
    /\ ~store_writable
    /\ store_writable' = TRUE
    /\ UNCHANGED <<app_mem, products_file, orders_file, app_fs, uuids,
                   orders_collection, threads>>

\* ---------------------------------------------- handlers, statement by step
\* The web server runs each request on its own thread: a handler that does
\* file I/O between its test of the status and its write of the status can
\* be interleaved with another request there.
NoLocals == [order_id |-> [frag |-> <<>>, rest |-> 0], receipt |-> None]
Locals(order_id, receipt) == [order_id |-> order_id, receipt |-> receipt]

\* approve_order up to the opening of the ZIP file
approve_begin(t, order_id, mark_as_proof) ==
    LET product_id == orders[order_id].product_id
    IN  /\ pc[t] = "idle"
        /\ IF ~can_approve(order_id)
           THEN /\ UNCHANGED <<products, orders, threads>>
           ELSE IF ~Has(products, product_id)
           THEN /\ UNCHANGED <<products, orders, threads>>
           ELSE /\ orders' = [orders EXCEPT ![order_id].is_proof = mark_as_proof]
                /\ products' = Put(products, product_id,
                                    release_product(products[product_id]))
                /\ pc' = [pc EXCEPT ![t] = "approve_zip"]
                /\ local' = [local EXCEPT ![t] = Locals(order_id, None)]
        /\ UNCHANGED <<slug_to_id_map, claim_codes, app_disk, app_fs, uuids,
                       orders_collection>>

\* approve_order: the try block writing the ZIP file, and its except branch
approve_zip(t, zip_ok) ==
    LET order_id == local[t].order_id
        product_id == orders[order_id].product_id
    IN  /\ pc[t] = "approve_zip"
        /\ IF zip_ok
           THEN /\ temp_downloads' =
                      Put(temp_downloads, order_id, zip_entries(products[product_id]))
                /\ pc' = [pc EXCEPT ![t] = "approve_commit"]
                /\ UNCHANGED <<products, local>>
           ELSE /\ products' = Put(products, product_id,
                                    revert_product(products[product_id]))
                /\ pc' = [pc EXCEPT ![t] = "idle"]
                /\ local' = [local EXCEPT ![t] = NoLocals]
                /\ UNCHANGED temp_downloads
        /\ UNCHANGED <<orders, slug_to_id_map, claim_codes, app_disk, secure_files,
                       uuids, orders_collection>>

\* approve_order from the write of status and token on
approve_commit(t) ==
    LET order_id == local[t].order_id
    IN  /\ pc[t] = "approve_commit"
        /\ orders' = [orders EXCEPT ![order_id].status = "approved",
                                    ![order_id].download_token = uuid4_token]
        /\ next_token' = next_token + 1
        /\ save_data(products, orders')
        /\ pc' = [pc EXCEPT ![t] = "idle"]
        /\ local' = [local EXCEPT ![t] = NoLocals]
        /\ UNCHANGED <<products, slug_to_id_map, claim_codes, app_fs, next_pid,
                       orders_collection>>

\* submit_payment up to the saving of the uploaded file
submit_begin(t, order_id, receipt_name) ==
    /\ pc[t] = "idle"
    /\ IF ~can_submit(order_id)
       THEN /\ UNCHANGED threads
       ELSE IF receipt_name = None
       THEN /\ UNCHANGED threads
       ELSE /\ pc' = [pc EXCEPT ![t] = "submit_commit"]
            /\ local' = [local EXCEPT ![t] = Locals(order_id, receipt_name)]
    /\ UNCHANGED <<app_mem, app_disk, app_fs, uuids, orders_collection>>

\* submit_payment from the write of receipt and status on
submit_commit(t) ==
    LET order_id == local[t].order_id
    IN  /\ pc[t] = "submit_commit"
        /\ orders' = [orders EXCEPT ![order_id].receipt_filename = local[t].receipt,
                                    ![order_id].status = "pending"]
        /\ save_data(products, orders')
        /\ pc' = [pc EXCEPT ![t] = "idle"]
        /\ local' = [local EXCEPT ![t] = NoLocals]
        /\ UNCHANGED <<products, slug_to_id_map, claim_codes, app_fs, uuids,
                       orders_collection>>

\* -------------------------------------------------------------- bot worker
\* db.orders is filled outside this repository: it holds the document of one
\* order that nobody has claimed yet
ChatIds == {"chat1"}
Usernames == {"buyer1"}
Messages == {<<"/claim">>,
             <<"/claim", <<"C", "L", "A", "I", "M", "-", "a", "1">>>>,
             <<"/claim", <<"C", "L", "A", "I", "M", "-", "b", "0">>>>}
StoredDocuments ==
    {[d \in {1} |-> [claim_code |-> <<"C", "L", "A", "I", "M", "-", "A", "1">>,
                     status |-> "unpaid", buyer_chat_id |-> None,
                     buyer_username |-> None]]}

\* a lookup that takes the first document whatever its claim code is
find_first(docs, claim_code) ==
    IF DOMAIN docs = {} THEN 0
    ELSE CHOOSE d \in DOMAIN docs : \A e \in DOMAIN docs : d <= e

\* orders_collection.find_one({'claim_code': claim_code}) on the documents
\* docs: the _id of the first match, 0 for no match
find_one(docs, claim_code) ==
    LET found == {d \in DOMAIN docs : docs[d].claim_code = claim_code}
    IN  IF found = {} THEN 0 ELSE CHOOSE d \in found : \A e \in found : d <= e

\* message.text.split()[1].upper().strip()
claim_code_in(words) == Strip(UpperStr(words[2]), Whitespace)

\* the documents of db.orders after /claim <code> on the documents docs;
\* words is message.text.split(), db_ok is false when a call on the
\* collection raises
claimed(docs, words, chat_id, username, db_ok) ==
    IF Len(words) < 2 \/ ~db_ok
    THEN docs
    ELSE LET id == find_one(docs, claim_code_in(words))
         IN  IF id = 0
             THEN docs
             ELSE [docs EXCEPT ![id].buyer_chat_id = chat_id,
                               ![id].buyer_username = username]

\* the handler of /claim
claim_order(words, chat_id, username, db_ok) ==
    /\ orders_collection' = claimed(orders_collection, words, chat_id, username, db_ok)
    /\ UNCHANGED <<app_mem, app_disk, app_fs, uuids, threads>>

\* what claim_order answers with bot.reply_to
claim_order_reply(words, db_ok) ==
    IF Len(words) < 2 THEN "invalid command format"
    ELSE IF ~db_ok THEN "unexpected server error"
    ELSE IF find_one(orders_collection, claim_code_in(words)) = 0
    THEN "invalid claim code"
    ELSE "success"

\* ------------------------------------------------------- the specification
Init ==
    /\ products = EmptyDict
    /\ orders = EmptyDict
    /\ slug_to_id_map = EmptyDict
    /\ claim_codes = EmptyDict
    /\ products_file = EmptyDict
    /\ orders_file = EmptyDict
    /\ store_writable = TRUE
    /\ secure_files = {}
    /\ temp_downloads = EmptyDict
    /\ next_pid = 1
    /\ next_token = 1
    /\ orders_collection \in StoredDocuments
    /\ pc = [t \in Threads |-> "idle"]
    /\ local = [t \in Threads |-> NoLocals]

Slugs == {base_slug(n) : n \in Names}
              \cup {base_slug(n) \o <<"-">> \o x : n \in Names, x \in Suffixes}
TokenInputs == ({orders[o].download_token : o \in DOMAIN orders} \ {None})
                   \cup {"bogus"}

AddProduct ==
    \E name \in Names, checker_type \in {"website_link", None},
       has_image \in BOOLEAN, has_script \in BOOLEAN, suffix \in Suffixes :
        /\ add_product(name, checker_type, has_image, has_script, suffix)
        /\ next_pid' <= MaxProducts + 1
EditProduct ==
    \E product_id \in ProductIds, name \in Names, status \in SubmittedStatuses,
       suffix \in Suffixes :
        edit_product(product_id, name, status, suffix)
DeleteProduct == \E product_id \in ProductIds : delete_product(product_id)
CreateOrder ==
    \E slug \in Slugs, order_id \in OrderIds, has_payment_method \in BOOLEAN :
        product_page(slug, order_id, has_payment_method)
SubmitPayment ==
    \E order_id \in OrderIds, receipt_name \in ReceiptNames \cup {None} :
        submit_payment(order_id, receipt_name)
Approve ==
    \E order_id \in OrderIds, mark_as_proof \in BOOLEAN, zip_ok \in BOOLEAN :
        approve_order(order_id, mark_as_proof, zip_ok)
Download == \E token \in TokenInputs : download_file(token)
Claim ==
    \E words \in Messages, chat_id \in ChatIds, username \in Usernames,
       db_ok \in BOOLEAN :
        claim_order(words, chat_id, username, db_ok)
AssetLost == \E name \in secure_files : asset_lost(name)

Next ==
    \/ AddProduct
    \/ EditProduct
    \/ DeleteProduct
    \/ CreateOrder
    \/ SubmitPayment
    \/ Approve
    \/ Download
    \/ Claim
    \/ AssetLost

Spec == Init /\ [][Next]_vars

\* The same program with approve_order and submit_payment run statement by
\* statement on concurrent request threads.
RaceReceiptNames == {"r1", "r2"}

ApproveBegin ==
    \E t \in Threads, order_id \in OrderIds, mark_as_proof \in BOOLEAN :
        approve_begin(t, order_id, mark_as_proof)
ApproveZip == \E t \in Threads, zip_ok \in BOOLEAN : approve_zip(t, zip_ok)
ApproveCommit == \E t \in Threads : approve_commit(t)
SubmitBegin ==
    \E t \in Threads, order_id \in OrderIds,
       receipt_name \in RaceReceiptNames \cup {None} :
        submit_begin(t, order_id, receipt_name)
SubmitCommit == \E t \in Threads : submit_commit(t)

RaceNext ==
    \/ AddProduct
    \/ CreateOrder
    \/ SubmitBegin
    \/ SubmitCommit
    \/ ApproveBegin
    \/ ApproveZip
    \/ ApproveCommit

SpecRace == Init /\ [][RaceNext]_vars

\* The order ledger alone, with several orders: the requests that create
\* and move orders, and the products they need.
LedgerCreateOrder ==
    \E slug \in Slugs, order_id \in LedgerOrderIds, has_payment_method \in BOOLEAN :
        product_page(slug, order_id, has_payment_method)
LedgerSubmitPayment ==
    \E order_id \in LedgerOrderIds, receipt_name \in ReceiptNames \cup {None} :
        submit_payment(order_id, receipt_name)
LedgerApprove ==
    \E order_id \in LedgerOrderIds, mark_as_proof \in BOOLEAN, zip_ok \in BOOLEAN :
        approve_order(order_id, mark_as_proof, zip_ok)

LedgerNext ==
    \/ AddProduct
    \/ LedgerCreateOrder
    \/ LedgerSubmitPayment
    \/ LedgerApprove
    \/ Download

SpecLedger == Init /\ [][LedgerNext]_vars

\* The program across restarts of its process.
RestartNext ==
    \/ Next
    \/ load_data

SpecRestart == Init /\ [][RestartNext]_vars

\* The program on a data folder that fails now and then.
StoreNext ==
    \/ Next
    \/ store_fails
    \/ store_recovers

SpecStore == Init /\ [][StoreNext]_vars

\* The catalog alone, with several products and more than one value of the
\* random suffix.
CatalogProductIds == 1..MaxCatalogProducts
CatalogNames == {<<"A">>, <<"B">>}
CatalogSuffixes == {<<"0", "0">>, <<"1", "1">>}

CatalogAdd ==
    \E name \in CatalogNames, suffix \in CatalogSuffixes :
        /\ add_product(name, "website_link", TRUE, FALSE, suffix)
        /\ next_pid' <= MaxCatalogProducts + 1
CatalogEdit ==
    \E product_id \in CatalogProductIds, name \in CatalogNames,
       suffix \in CatalogSuffixes :
        edit_product(product_id, name, "available", suffix)
CatalogDelete == \E product_id \in CatalogProductIds : delete_product(product_id)

CatalogNext ==
    \/ CatalogAdd
    \/ CatalogEdit
    \/ CatalogDelete

SpecCatalog == Init /\ [][CatalogNext]_vars

\* create_slug on its own: one product is added to the empty catalog, its
\* name being any string over letters, digits, '-', space and other characters.
NameAlphabet == {"a", "A", "0", "-", " ", "!"}
SlugNames == UNION {[1..n -> NameAlphabet] : n \in 0..MaxNameLen}

SlugAdd ==
    \E name \in SlugNames, suffix \in Suffixes :
        /\ products = EmptyDict
        /\ add_product(name, "website_link", TRUE, FALSE, suffix)

SlugNext == SlugAdd

SpecSlug == Init /\ [][SlugNext]_vars

\* ------------------------------------------------------------------ claims
StatusSteps == {<<"unpaid", "pending">>, <<"pending", "approved">>,
                <<"approved", "completed">>}
ErrorCodes == {400, 404, 409, 500}
HasStatus(order_id, status) ==
    order_id \in DOMAIN orders /\ orders[order_id].status = status
Orderable(slug) ==
    /\ slug \in DOMAIN slug_to_id_map
    /\ slug_to_id_map[slug] \in DOMAIN products
    /\ products[slug_to_id_map[slug]].status = "available"
Held(token) == \E o \in DOMAIN orders : orders[o].download_token = token

\* C1: over every sequence of operations an order is never removed and its
\* status either stays or takes one of the steps unpaid->pending,
\* pending->approved, approved->completed.
C1_StatusMonotonic ==
    [][/\ \A o \in DOMAIN orders :
             /\ o \in DOMAIN orders'
             /\ \/ orders'[o].status = orders[o].status
                \/ <<orders[o].status, orders'[o].status>> \in StatusSteps
       /\ \A d \in DOMAIN orders_collection :
             /\ d \in DOMAIN orders_collection'
             /\ orders_collection'[d].status = orders_collection[d].status]_vars

\* an order went through every step, and the order in db.orders was claimed
C1_Witness ==
    /\ \E o \in DOMAIN orders : orders[o].status = "completed"
    /\ \E d \in DOMAIN orders_collection :
          orders_collection[d].buyer_chat_id # None

\* C2: under every interleaving the test of the status and the write of the
\* new status are one step: a token is written only to an order that is
\* 'pending' at that moment, and a receipt only to one that is 'unpaid'.
C2_GuardAndWriteAtomic ==
    [][\A o \in DOMAIN orders :
          /\ orders'[o].download_token # orders[o].download_token =>
                orders[o].status = "pending"
          /\ orders'[o].receipt_filename # orders[o].receipt_filename =>
                orders[o].status = "unpaid"]_vars

\* C3: create-order on an unknown slug or on a product that is not
\* 'available' answers 404, and an order or claim code only ever appears for
\* a product that was 'available'; a create-order that is accepted adds
\* exactly one order, 'unpaid', registers its claim code and sets the
\* product's status to 'pending', every other product staying as it was.
C3_CreateOrder ==
    /\ [](\A slug \in Slugs, pm \in BOOLEAN :
             ~Orderable(slug) => product_page_reply(slug, pm).code = 404)
    /\ [][(DOMAIN orders' # DOMAIN orders \/ claim_codes' # claim_codes) =>
             \E slug \in Slugs, order_id \in OrderIds :
                /\ Orderable(slug)
                /\ product_page_reply(slug, TRUE).code = 302
                /\ product_page(slug, order_id, TRUE)
                /\ order_id \notin DOMAIN orders
                /\ DOMAIN orders' = DOMAIN orders \cup {order_id}
                /\ \A o \in DOMAIN orders : orders'[o] = orders[o]
                /\ orders'[order_id].status = "unpaid"
                /\ claim_codes'[orders'[order_id].claim_code] = order_id
                /\ DOMAIN products' = DOMAIN products
                /\ products'[slug_to_id_map[slug]].status = "pending"
                /\ \A p \in DOMAIN products \ {slug_to_id_map[slug]} :
                      products'[p] = products[p]]_vars

\* an order was accepted, and a further create-order on its product is refused
C3_Witness ==
    \E o \in DOMAIN orders :
       /\ orders[o].status = "unpaid"
       /\ orders[o].product_id \in DOMAIN products
       /\ products[orders[o].product_id].status = "pending"
       /\ product_page_reply(products[orders[o].product_id].slug, TRUE).code = 404

\* C4: approving an unknown order or an order that is not 'pending' is
\* answered with an error and leaves every order and product unchanged.
C4_ApproveRejected ==
    [][/\ (\A order_id \in OrderIds, z \in BOOLEAN, n \in BOOLEAN :
              ~HasStatus(order_id, "pending") =>
                 approve_order_reply(order_id, z, n).code \in ErrorCodes)'
       /\ \A order_id \in OrderIds, m \in BOOLEAN, z \in BOOLEAN :
             (approve_order(order_id, m, z) /\ ~HasStatus(order_id, "pending")) =>
                UNCHANGED <<orders, products>>]_vars

\* C5: an approval that moves a pending order to 'approved' leaves it with a
\* download token that no order held before, and leaves the order's product
\* 'available'.
C5_ApproveEffect ==
    [][\A o \in DOMAIN orders :
          (orders[o].status = "pending" /\ orders'[o].status = "approved") =>
             /\ orders'[o].download_token # None
             /\ \A q \in DOMAIN orders :
                   orders[q].download_token # orders'[o].download_token
             /\ orders[o].product_id \in DOMAIN products'
             /\ products'[orders[o].product_id].status = "available"]_vars

\* a pending order was approved
C5_Witness ==
    \E o \in DOMAIN orders :
       /\ orders[o].status = "approved"
       /\ orders[o].download_token # None
       /\ orders[o].product_id \in DOMAIN products
       /\ products[orders[o].product_id].status = "available"

\* C6: a receipt for an unknown order or an order that is not 'unpaid' answers
\* 404, and a receipt is only ever stored on an order that was 'unpaid'; a
\* receipt for an 'unpaid' order is stored and the order becomes 'pending';
\* a 'pending' order has its receipt set.
C6_SubmitReceipt ==
    /\ [](/\ \A order_id \in OrderIds :
                ~HasStatus(order_id, "unpaid") =>
                   submit_payment_reply(order_id).code = 404
          /\ \A o \in DOMAIN orders :
                orders[o].status = "pending" => orders[o].receipt_filename # None)
    /\ [][\A o \in DOMAIN orders :
             /\ orders'[o].receipt_filename # orders[o].receipt_filename =>
                   /\ orders[o].status = "unpaid"
                   /\ orders'[o].status = "pending"
                   /\ orders'[o].receipt_filename \in ReceiptNames
                   /\ submit_payment(o, orders'[o].receipt_filename)
             /\ (orders[o].status = "unpaid" /\ orders'[o].status # "unpaid") =>
                   /\ orders'[o].status = "pending"
                   /\ orders'[o].receipt_filename # None]_vars

\* a receipt was accepted, and a second one for the same order is refused
C6_Witness ==
    \E o \in DOMAIN orders :
       /\ orders[o].status = "pending"
       /\ orders[o].receipt_filename # None
       /\ submit_payment_reply(o).code = 404

\* C7: approving an order whose product is delivered as a file, the file
\* being absent from the asset folder, fails: the order stays 'pending'
\* without a token, the product keeps its status and no bundle is written.
C7_MissingAssetFails ==
    [][\A order_id \in DOMAIN orders, m \in BOOLEAN, z \in BOOLEAN :
          (/\ approve_order(order_id, m, z)
           /\ orders[order_id].status = "pending"
           /\ orders[order_id].product_id \in DOMAIN products
           /\ products[orders[order_id].product_id].checker_type # "website_link"
           /\ products[orders[order_id].product_id].script_filename \notin secure_files) =>
             /\ \A n \in BOOLEAN :
                   approve_order_reply(order_id, z, n).code \in ErrorCodes
             /\ orders'[order_id].status = "pending"
             /\ orders'[order_id].download_token = None
             /\ products'[orders[order_id].product_id].status
                   = products[orders[order_id].product_id].status
             /\ UNCHANGED temp_downloads]_vars

\* C8: an approval whose packaging raises leaves every order and every
\* product exactly as it was before the approval.
C8_PackagingFailureReverts ==
    [][\A order_id \in DOMAIN orders, m \in BOOLEAN :
          (/\ approve_order(order_id, m, FALSE)
           /\ orders[order_id].status = "pending"
           /\ orders[order_id].product_id \in DOMAIN products) =>
             UNCHANGED <<orders, products>>]_vars

\* C9: a fetch with the token of an 'approved' or 'completed' order is served
\* and leaves the order 'completed'; on a 'completed' order it changes nothing.
C9_FetchIdempotent ==
    [][/\ (\A o \in DOMAIN orders :
              (orders[o].status \in {"approved", "completed"}
                  /\ orders[o].download_token # None) =>
                 download_file_reply(orders[o].download_token).code = 200)'
       /\ \A o \in DOMAIN orders :
             (/\ orders[o].status \in {"approved", "completed"}
              /\ orders[o].download_token # None
              /\ download_file(orders[o].download_token)) =>
                /\ orders'[o].status = "completed"
                /\ orders[o].status = "completed" =>
                      UNCHANGED <<app_mem, app_disk, app_fs, uuids>>]_vars

\* C10: a fetch with a token some order holds is served, in every reachable
\* state; a fetch with a token no order holds answers 404 and changes nothing.
C10_TokenSoleCapability ==
    [][/\ (\A token \in TokenInputs :
              download_file_reply(token).code = IF Held(token) THEN 200 ELSE 404)'
       /\ \A token \in TokenInputs :
             (download_file(token) /\ ~Held(token)) =>
                UNCHANGED <<app_mem, app_disk, app_fs, uuids>>]_vars

C12_ClaimCodesDistinct ==
    [][/\ (\A o \in DOMAIN orders, q \in DOMAIN orders :
              o # q => orders[o].claim_code # orders[q].claim_code)'
       /\ \A c \in DOMAIN claim_codes :
             /\ c \in DOMAIN claim_codes'
             /\ claim_codes'[c] = claim_codes[c]]_vars

\* C13: a claim changes nothing but the buyer chat identity and buyer name of
\* the order whose claim code was sent (no product and no order of the shop
\* changes), a claim repeated changes nothing more, and a claim with an
\* unknown or missing code is refused and changes no order.
C13_ClaimFrame ==
    /\ [](\A words \in Messages, chat_id \in ChatIds, username \in Usernames,
            db_ok \in BOOLEAN :
             LET after == claimed(orders_collection, words, chat_id, username, db_ok)
                 known == /\ Len(words) >= 2
                          /\ \E d \in DOMAIN orders_collection :
                                orders_collection[d].claim_code = UpperStr(words[2])
             IN  /\ DOMAIN after = DOMAIN orders_collection
                 /\ \A d \in DOMAIN after :
                       /\ [after[d] EXCEPT
                             !.buyer_chat_id = orders_collection[d].buyer_chat_id,
                             !.buyer_username = orders_collection[d].buyer_username]
                             = orders_collection[d]
                       /\ after[d] # orders_collection[d] =>
                             /\ known
                             /\ after[d].claim_code = UpperStr(words[2])
                             /\ after[d].buyer_chat_id = chat_id
                             /\ after[d].buyer_username = username
                 /\ claimed(after, words, chat_id, username, db_ok) = after
                 /\ ~known =>
                       /\ after = orders_collection
                       /\ claim_order_reply(words, db_ok) # "success"
                 /\ (known /\ db_ok) =>
                       /\ claim_order_reply(words, db_ok) = "success"
                       /\ \E d \in DOMAIN after : after[d].buyer_chat_id = chat_id)
    /\ [][orders_collection' # orders_collection =>
             UNCHANGED <<app_mem, app_disk, app_fs, uuids>>]_vars

\* the order in db.orders was claimed, and a claim with another code is refused
C13_Witness ==
    /\ \E d \in DOMAIN orders_collection :
          /\ orders_collection[d].buyer_chat_id \in ChatIds
          /\ orders_collection[d].status = "unpaid"
    /\ \E words \in Messages :
          Len(words) >= 2 /\ claim_order_reply(words, TRUE) = "invalid claim code"

\* C14: in every reachable state, after approval, completion and restarts
\* too, the claim registry maps the claim code of every order of the ledger
\* to that order.
C14_ClaimCodeResolvable ==
    \A o \in DOMAIN orders :
       /\ orders[o].claim_code \in DOMAIN claim_codes
       /\ claim_codes[orders[o].claim_code] = o

\* C15: after any sequence of add-product, edit-product and delete-product,
\* whatever the random suffixes are, no two distinct products of the catalog
\* have the same slug.
C15_SlugsUnique ==
    \A p \in DOMAIN products, q \in DOMAIN products :
       p # q => products[p].slug # products[q].slug

\* C16: an edit that keeps the product's name leaves the product's slug as
\* it was, and an edit whose name-derived slug is mapped to the edited
\* product itself yields that slug without a suffix. (An edit that sets the
\* name back to an earlier value runs the same code as one that keeps it.)
C16_EditKeepsSlug ==
    [][\A product_id \in CatalogProductIds, name \in CatalogNames,
          suffix \in CatalogSuffixes :
          (/\ product_id \in DOMAIN products
           /\ edit_product(product_id, name, "available", suffix)) =>
             /\ name = products[product_id].name =>
                   products'[product_id].slug = products[product_id].slug
             /\ (/\ base_slug(name) \in DOMAIN slug_to_id_map
                 /\ slug_to_id_map[base_slug(name)] = product_id) =>
                   products'[product_id].slug = base_slug(name)]_vars

\* the characters of [a-z0-9-]
SlugClass ==
    {"a", "b", "c", "d", "e", "f", "g", "h", "i", "j", "k", "l", "m", "n", "o",
     "p", "q", "r", "s", "t", "u", "v", "w", "x", "y", "z", "0", "1", "2", "3",
     "4", "5", "6", "7", "8", "9", "-"}

\* C17: for every product name, with no colliding product, create_slug(name)
\* is non-empty, has only characters of [a-z0-9-], neither starts nor ends
\* with '-', has no two '-' in a row, and create_slug maps it to itself.
C17_SlugWellFormed ==
    \A p \in DOMAIN products :
       LET s == products[p].slug
       IN  /\ Len(s) > 0
           /\ \A i \in 1..Len(s) : s[i] \in SlugClass
           /\ s[1] # "-"
           /\ s[Len(s)] # "-"
           /\ \A i \in 1..(Len(s) - 1) : ~(s[i] = "-" /\ s[i + 1] = "-")
           /\ \A suffix \in Suffixes : create_slug(s, p, suffix) = s

\* a name with capitals, other characters and a run of them got its slug
C17_Witness ==
    \E p \in DOMAIN products :
       /\ products[p].name = <<"A", "!", " ", "0">>
       /\ products[p].slug = <<"a", "-", "0">>

\* C18: a failing notification send changes neither what a request does to
\* the state nor what it answers: in every reachable state an approval
\* answers the same whether the send succeeds or raises, for an order with
\* and without a linked buyer, and a step that approves an order or takes
\* its receipt has persisted it.
C18_NotificationFailureSwallowed ==
    [][/\ (\A order_id \in OrderIds, zip_ok \in BOOLEAN :
              approve_order_reply(order_id, zip_ok, FALSE)
                 = approve_order_reply(order_id, zip_ok, TRUE))'
       /\ \A o \in DOMAIN orders :
             (orders'[o].status # orders[o].status /\ store_writable) =>
                orders_file'[o] = orders'[o]]_vars

\* C19: at the end of every operation the persisted products and orders
\* equal the in-memory products and orders.
C19_WriteThrough ==
    /\ products_file = products
    /\ orders_file = orders

\* C20: while the data folder refuses writes, a request that has to write
\* through is aborted: no order is added and no order changes its status, the
\* claim registry stays as it is, and a create-order answers with an error
\* and leaves products, orders, slug index and claim registry untouched.
C20_FailedWriteAborts ==
    [][~store_writable =>
          /\ DOMAIN orders' = DOMAIN orders
          /\ \A o \in DOMAIN orders : orders'[o].status = orders[o].status
          /\ UNCHANGED claim_codes
          /\ \A slug \in Slugs, order_id \in OrderIds :
                product_page(slug, order_id, TRUE) =>
                   /\ UNCHANGED <<products, orders, slug_to_id_map, claim_codes>>
                   /\ product_page_reply(slug, TRUE).code \in ErrorCodes]_vars

\* C21: in every reachable state every product's status is 'available' or
\* 'pending' and every order's status is one of 'unpaid', 'pending',
\* 'approved', 'completed'.
C21_StatusDomains ==
    /\ \A p \in DOMAIN products : products[p].status \in {"available", "pending"}
    /\ \A o \in DOMAIN orders :
          orders[o].status \in {"unpaid", "pending", "approved", "completed"}

\* C22: when an order is approved and the document of db.orders with the
\* order's claim code has been claimed by a chat, the order record that
\* approve_order reads carries that chat identity and the download link is
\* sent to it.
C22_ClaimVisibleAtApproval ==
    [][\A o \in DOMAIN orders :
          (orders[o].status = "pending" /\ orders'[o].status = "approved") =>
             \A d \in DOMAIN orders_collection :
                (/\ orders_collection[d].claim_code = orders[o].claim_code
                 /\ orders_collection[d].buyer_chat_id # None) =>
                   /\ orders'[o].buyer_chat_id = orders_collection[d].buyer_chat_id
                   /\ link_recipient(o)' = orders_collection[d].buyer_chat_id]_vars

\* C23: in every reachable state each product has at most one order whose
\* status is 'unpaid' or 'pending', and a product with such an order has
\* status 'pending'.
C23_OneOpenOrder ==
    \A p \in DOMAIN products :
       LET open == {o \in DOMAIN orders :
                       /\ orders[o].product_id = p
                       /\ orders[o].status \in {"unpaid", "pending"}}
       IN  /\ Cardinality(open) <= 1
           /\ open # {} => products[p].status = "pending"

\* C24: in every reachable state slug_to_id_map maps the slug of every live
\* product to that product's id, and every key of slug_to_id_map is the slug
\* of the live product it maps to.
C24_SlugIndexConsistent ==
    /\ \A p \in DOMAIN products :
          /\ products[p].slug \in DOMAIN slug_to_id_map
          /\ slug_to_id_map[products[p].slug] = p
    /\ \A s \in DOMAIN slug_to_id_map :
          /\ slug_to_id_map[s] \in DOMAIN products
          /\ products[slug_to_id_map[s]].slug = s

====
